---- MODULE Spec2Model ----
(***************************************************************************)
(* Godwallet backend: the listing routes of routes/domains.js over the     *)
(* Sequelize models of models/index.js.  Every `await` of a handler is a   *)
(* point where another request may run, so a handler is a short sequence   *)
(* of steps: the step that ends with a database read, and the step(s) that *)
(* end with a database write.  A step that ends the handler sends the      *)
(* response.                                                               *)
(***************************************************************************)
EXTENDS Integers, Sequences, FiniteSets, TLC

VARIABLES domains, listings, leases, bindings, req, nreq, last,
          tokenIds, leaseInfo, domainToToken, owners, txn,
          users, held, now, areq, alast,
          history, found

\* the listing routes and the lease lifecycle over the database
webVars == <<domains, listings, leases, bindings, req, nreq, last>>
\* the DomainLeaseNFT contract
chainVars == <<tokenIds, leaseInfo, domainToToken, owners, txn>>
\* the auth routes and the authenticate middleware
authVars == <<users, held, now, areq, alast>>

\* the InteractionHistory table and the body of the last read response
browseVars == <<history, found>>

vars == <<webVars, chainVars, authVars, browseVars>>

(***************************************************************************)
(* Bounds of the model.                                                    *)
(***************************************************************************)
MaxRequests == 3
MaxInFlight == 2
MaxListings == 2

Slots == 1..MaxInFlight

(***************************************************************************)
(* Values.                                                                 *)
(***************************************************************************)
Undef == "undefined"
Null == "null"
NoValue == << >>

UserIds == {"u1", "u2"}
DomainNames == {"a.com"}

ListingStatus == {"active", "leased", "expired", "cancelled"}
LeaseStatus == {"active", "completed", "terminated", "disputed"}

(***************************************************************************)
(* JavaScript `a || b` for the three kinds of body fields.  A number is    *)
(* falsy when it is undefined or 0, a string when it is undefined or       *)
(* empty; an array, even the empty one, is truthy.                         *)
(***************************************************************************)
NumOr(a, b) == IF a = NoValue THEN b ELSE IF a[1] = 0 THEN b ELSE a[1]
StrOr(a, b) == IF a \in {Undef, ""} THEN b ELSE a
ArrOr(a, b) == IF a = NoValue THEN b ELSE a[1]

(***************************************************************************)
(* Request bodies.  An absent number or array is NoValue, a present one a  *)
(* one-element tuple; an absent string is Undef.                           *)
(***************************************************************************)
PlainTerms == [price |-> <<1>>, durationMonths |-> <<1>>, description |-> Undef,
               restrictions |-> Undef, tags |-> NoValue]

PostBodies ==
  { [PlainTerms EXCEPT !.description = "a", !.restrictions = "a", !.tags = <<{"t"}>>],
    [PlainTerms EXCEPT !.price = <<0>>, !.durationMonths = <<0>>],
    [PlainTerms EXCEPT !.price = NoValue] }

EmptyPatch == [price |-> NoValue, description |-> Undef, restrictions |-> Undef,
               tags |-> NoValue, status |-> Undef]

PatchBodies ==
  { [EmptyPatch EXCEPT !.price = <<0>>],
    [EmptyPatch EXCEPT !.price = <<2>>, !.description = "b", !.restrictions = "b",
                       !.tags = <<{}>>] }
  \cup { [EmptyPatch EXCEPT !.status = s] : s \in {"active", "leased", "expired", "bogus"} }

(***************************************************************************)
(* A request slot.  pc is the handler's position; snap is the Sequelize    *)
(* instance the handler loaded (a copy of the row as it was read).         *)
(***************************************************************************)
NoRow == [domainId |-> 0, lessorId |-> Null, priceAmount |-> 0, durationDays |-> 0,
          description |-> Null, restrictions |-> Null, tags |-> {}, status |-> Null]

IdleReq == [pc |-> "idle", kind |-> "none", userId |-> Null, id |-> 0,
            domainName |-> Null, terms |-> PlainTerms, body |-> EmptyPatch,
            snap |-> NoRow]

\* res.status(code).json(...): the response sent last, and the route it came from
Response(r, code) == [kind |-> r.kind, resp |-> code]

NoResponse == [kind |-> "none", resp |-> 0]

\* the database after the first sequelize.sync, no request received yet
WebInit ==
  /\ domains = << >>
  /\ listings = << >>
  /\ leases = << >>
  /\ bindings = {}
  /\ req = [s \in Slots |-> IdleReq]
  /\ nreq = 0
  /\ last = NoResponse

\* a new request takes the first free slot
CanStart(s) ==
  /\ nreq < MaxRequests
  /\ req[s].pc = "idle"
  /\ \A s2 \in Slots : s2 < s => req[s2].pc # "idle"

\* the handler in slot s goes on to its next await
Continue(s, r) == req' = [req EXCEPT ![s] = r] /\ UNCHANGED last

\* the handler in slot s sends its response and is over
Respond(s, r, code) == req' = [req EXCEPT ![s] = IdleReq] /\ last' = Response(r, code)

(***************************************************************************)
(* POST /api/domains/listings                                              *)
(***************************************************************************)
\* Domain.findOne({ where: { domainName } }): the row's id, 0 when none
FindDomain(name) ==
  IF \E d \in 1..Len(domains) : domains[d].domainName = name
  THEN CHOOSE d \in 1..Len(domains) : domains[d].domainName = name
  ELSE 0

\* the ownership test left out: every caller may list every domain
DomainNotOwnedSkipped(d, userId) == FALSE

\* if (domain && domain.ownerId !== req.userId)
DomainNotOwned(d, userId) == d # 0 /\ domains[d].ownerId # userId

\* a Domains table without the unique index on domainName
DomainNameTakenNoIndex(name) == FALSE

\* the unique constraint on Domain.domainName
DomainNameTaken(name) == \E d \in 1..Len(domains) : domains[d].domainName = name

\* the values handed to Listing.create
NewListing(domainId, userId, terms) ==
  [domainId |-> domainId, lessorId |-> userId,
   priceAmount |-> terms.price[1],
   durationDays |-> terms.durationMonths[1] * 30,
   description |-> IF terms.description = Undef THEN Null ELSE terms.description,
   restrictions |-> IF terms.restrictions = Undef THEN Null ELSE terms.restrictions,
   tags |-> ArrOr(terms.tags, {}),
   status |-> "active"]

\* allowNull: false on priceAmount and durationDays (undefined * 30 is NaN)
ListingNotNullViolated(terms) == terms.price = NoValue \/ terms.durationMonths = NoValue

\* the Listings table has room for the row this request may insert
HasRoom == Len(listings) + Cardinality({s \in Slots : req[s].kind = "post"}) < MaxListings

PostFind(s, userId, name, terms) ==
  /\ CanStart(s)
  /\ HasRoom
  /\ nreq' = nreq + 1
  /\ LET r == [IdleReq EXCEPT !.kind = "post", !.userId = userId,
                              !.domainName = name, !.terms = terms]
         d == FindDomain(name)
     IN  IF DomainNotOwned(d, userId) THEN Respond(s, r, 403)
         ELSE IF d = 0 THEN Continue(s, [r EXCEPT !.pc = "post_create_domain"])
         ELSE Continue(s, [r EXCEPT !.pc = "post_create_listing", !.id = d])
  /\ UNCHANGED <<domains, listings, leases, bindings, chainVars, authVars, browseVars>>

PostCreateDomain(s) ==
  /\ req[s].pc = "post_create_domain"
  /\ LET r == req[s]
     IN  IF DomainNameTaken(r.domainName)
         THEN /\ Respond(s, r, 500)
              /\ UNCHANGED domains
         ELSE /\ domains' = Append(domains, [domainName |-> r.domainName,
                                             ownerId |-> r.userId])
              /\ Continue(s, [r EXCEPT !.pc = "post_create_listing",
                                       !.id = Len(domains) + 1])
  /\ UNCHANGED <<listings, leases, nreq, bindings, chainVars, authVars, browseVars>>

PostCreateListing(s) ==
  /\ req[s].pc = "post_create_listing"
  /\ LET r == req[s]
     IN  IF ListingNotNullViolated(r.terms)
         THEN /\ Respond(s, r, 500)
              /\ UNCHANGED listings
         ELSE /\ listings' = Append(listings, NewListing(r.id, r.userId, r.terms))
              /\ Respond(s, r, 201)
  /\ UNCHANGED <<domains, leases, nreq, bindings, chainVars, authVars, browseVars>>

(***************************************************************************)
(* PATCH /api/domains/listings/:id                                         *)
(***************************************************************************)
\* the ids a request may name: every listing, and one that does not exist
RequestIds == 1..(Len(listings) + 1)

\* Listing.findByPk(req.params.id) found a row
ListingExists(id) == id \in 1..Len(listings)

\* the lessor test left out: every authenticated user passes
NotLessorSkipped(listing, userId) == FALSE

\* if (listing.lessorId !== req.userId)
NotLessor(listing, userId) == listing.lessorId # userId

\* the values handed to listing.update, computed from the body and the
\* instance that was loaded
PatchValues(body, snap) ==
  [priceAmount |-> NumOr(body.price, snap.priceAmount),
   description |-> StrOr(body.description, snap.description),
   restrictions |-> StrOr(body.restrictions, snap.restrictions),
   tags |-> ArrOr(body.tags, snap.tags),
   status |-> StrOr(body.status, snap.status)]

\* instance.update(values): set() the values on the instance, and when one of
\* them differs from the loaded row, UPDATE every given column of the row
Changed(values, snap) == \E f \in DOMAIN values : values[f] # snap[f]

WriteRow(row, values) ==
  [f \in DOMAIN row |-> IF f \in DOMAIN values THEN values[f] ELSE row[f]]

\* the ENUM of Listing.status rejects any other value
StatusRejected(values) == values.status \notin ListingStatus

PatchFind(s, userId, id, body) ==
  /\ CanStart(s)
  /\ id \in RequestIds
  /\ nreq' = nreq + 1
  /\ LET r == [IdleReq EXCEPT !.kind = "patch", !.userId = userId,
                              !.id = id, !.body = body]
     IN  IF ~ListingExists(id) THEN Respond(s, r, 404)
         ELSE IF NotLessor(listings[id], userId) THEN Respond(s, r, 403)
         ELSE Continue(s, [r EXCEPT !.pc = "patch_update", !.snap = listings[id]])
  /\ UNCHANGED <<domains, listings, leases, bindings, chainVars, authVars, browseVars>>

PatchUpdate(s) ==
  /\ req[s].pc = "patch_update"
  /\ LET r == req[s]
         values == PatchValues(r.body, r.snap)
     IN  IF StatusRejected(values)
         THEN /\ Respond(s, r, 500)
              /\ UNCHANGED listings
         ELSE /\ Respond(s, r, 200)
              /\ listings' = IF Changed(values, r.snap)
                             THEN [listings EXCEPT ![r.id] = WriteRow(@, values)]
                             ELSE listings
  /\ UNCHANGED <<domains, leases, nreq, bindings, chainVars, authVars, browseVars>>

(***************************************************************************)
(* DELETE /api/domains/listings/:id                                        *)
(***************************************************************************)
\* if (listing.status === 'leased')
IsLeased(listing) == listing.status = "leased"

\* a cancel that writes another terminal status
DeleteValuesExpired == [status |-> "expired"]

\* listing.update({ status: 'cancelled' })
DeleteValues == [status |-> "cancelled"]

DeleteFind(s, userId, id) ==
  /\ CanStart(s)
  /\ id \in RequestIds
  /\ nreq' = nreq + 1
  /\ LET r == [IdleReq EXCEPT !.kind = "delete", !.userId = userId, !.id = id]
     IN  IF ~ListingExists(id) THEN Respond(s, r, 404)
         ELSE IF NotLessor(listings[id], userId) THEN Respond(s, r, 403)
         ELSE IF IsLeased(listings[id]) THEN Respond(s, r, 400)
         ELSE Continue(s, [r EXCEPT !.pc = "delete_update", !.snap = listings[id]])
  /\ UNCHANGED <<domains, listings, leases, bindings, chainVars, authVars, browseVars>>

DeleteUpdate(s) ==
  /\ req[s].pc = "delete_update"
  /\ LET r == req[s]
     IN  /\ Respond(s, r, 200)
         /\ listings' = IF Changed(DeleteValues, r.snap)
                        THEN [listings EXCEPT ![r.id] = WriteRow(@, DeleteValues)]
                        ELSE listings
  /\ UNCHANGED <<domains, leases, nreq, bindings, chainVars, authVars, browseVars>>

(***************************************************************************)
(* The lease lifecycle (routes/leases.js): createLease and terminate, each *)
(* one unit of work.  bindings is the set of Listings that carry a token   *)
(* binding (nftContractAddress and nftTokenId recorded).                   *)
(***************************************************************************)
ActiveLeases(id) == {k \in 1..Len(leases) : leases[k].listingId = id /\ leases[k].status = "active"}

\* Listing.release: leased -> active, a no-op otherwise
Release(listing) == IF listing.status = "leased" THEN [listing EXCEPT !.status = "active"]
                    ELSE listing

\* what the caller asks of the blockchain collaborator and what it answers:
\* no issuance requested, a token issued, a transient error (network,
\* timeout), a contract revert
Issuance == {"none", "issued", "transient", "revert"}

\* a createLease that does not look at the Listing's status
LeasableAny(listing) == TRUE

\* listing.status = active, the precondition of createLease and markLeased
Leasable(listing) == listing.status = "active"

\* the unit of work is rolled back: no Lease, no status change, no binding
RolledBack(id, userId) == UNCHANGED <<listings, leases, bindings>>

\* the answer to a createLease on a leasable Listing, by the outcome of the
\* token-binding step: 0 when the unit of work commits
BindingError(id, nft) ==
  CASE nft = "none" -> 0
    [] nft = "transient" -> 503
    [] nft = "revert" -> 502
    [] nft = "issued" -> IF id \in bindings THEN 409 ELSE 0

CreateLease(s, userId, id, nft) ==
  /\ CanStart(s)
  /\ ListingExists(id)
  /\ nreq' = nreq + 1
  /\ LET r == [IdleReq EXCEPT !.kind = "createLease", !.userId = userId, !.id = id]
     IN  IF ~Leasable(listings[id])
         THEN /\ Respond(s, r, 400)
              /\ UNCHANGED <<listings, leases, bindings>>
         ELSE IF BindingError(id, nft) # 0
         THEN /\ Respond(s, r, BindingError(id, nft))
              /\ RolledBack(id, userId)
         ELSE /\ leases' = Append(leases, [listingId |-> id, lesseeId |-> userId,
                                           status |-> "active"])
              /\ listings' = [listings EXCEPT ![id].status = "leased"]
              /\ bindings' = IF nft = "issued" THEN bindings \cup {id} ELSE bindings
              /\ Respond(s, r, 201)
  /\ UNCHANGED <<domains, chainVars, authVars, browseVars>>

\* terminate: active -> terminated, Listing.release, and unbind as best
\* effort (the binding stays when the on-chain call fails)
TerminateLease(s, k, unbound) ==
  /\ CanStart(s)
  /\ k \in 1..Len(leases)
  /\ nreq' = nreq + 1
  /\ LET r == [IdleReq EXCEPT !.kind = "terminate", !.id = k]
     IN  IF leases[k].status # "active"
         THEN /\ Respond(s, r, 400)
              /\ UNCHANGED <<listings, leases, bindings>>
         ELSE /\ leases' = [leases EXCEPT ![k].status = "terminated"]
              /\ listings' = [listings EXCEPT ![leases[k].listingId] = Release(@)]
              /\ bindings' = IF unbound THEN bindings \ {leases[k].listingId} ELSE bindings
              /\ Respond(s, r, 200)
  /\ UNCHANGED <<domains, chainVars, authVars, browseVars>>

(***************************************************************************)
(* The DomainLeaseNFT contract.  A transaction that fails a require()      *)
(* reverts: the contract's storage is as before the call.  leaseInfo is    *)
(* the mapping `leases` of the contract and owners the ERC721 owner of     *)
(* each token, both indexed by token id 1..tokenIds.                       *)
(***************************************************************************)
MaxTokens == 2

ZeroAddress == "0x0"
ContractOwner == "deployer"
Accounts == {ContractOwner, "alice", "bob"}
Addresses == Accounts \cup {ZeroAddress}
Lessors == {"alice"}
ChainNames == {"", "a.com", "b.io"}
Dates == {1, 2}
AllTokenIds == 1..(MaxTokens + 1)

\* the outcome of the last transaction: err is the message of the require()
\* that failed, empty when the transaction went through
NoTxn == [fn |-> "none", err |-> ""]

ChainInit ==
  /\ tokenIds = 0
  /\ leaseInfo = << >>
  /\ domainToToken = [n \in ChainNames |-> 0]
  /\ owners = << >>
  /\ txn = NoTxn

\* the transaction reverts
Revert(fn, err) ==
  /\ txn' = [fn |-> fn, err |-> err]
  /\ UNCHANGED <<tokenIds, leaseInfo, domainToToken, owners>>

Done(fn) == txn' = [fn |-> fn, err |-> ""]

\* _exists(tokenId): minted and not burned (no function of the contract burns)
Exists(tokenId) == tokenId \in 1..Len(owners)

\* a mint without the test of domainToToken
DomainBoundIgnored(domainName) == FALSE

\* domainToToken[domainName] != 0
DomainBound(domainName) == domainToToken[domainName] # 0

\* a mint without the tests of its arguments
MintArgsUnchecked(lessee, domainName, startDate, endDate) == ""

\* the first three require() of mintLease: the message of the one that fails
MintArgsError(lessee, domainName, startDate, endDate) ==
  IF domainName = "" THEN "Domain name required"
  ELSE IF lessee = ZeroAddress THEN "Invalid lessee address"
  ELSE IF ~(endDate > startDate) THEN "End date must be after start date"
  ELSE ""

mintLease(sender, lessor, lessee, domainName, startDate, endDate) ==
  /\ LET err == IF sender # ContractOwner THEN "Ownable: caller is not the owner"
                ELSE IF MintArgsError(lessee, domainName, startDate, endDate) # ""
                THEN MintArgsError(lessee, domainName, startDate, endDate)
                ELSE IF DomainBound(domainName)
                THEN "Lease already exists for this domain"
                ELSE ""
     IN  IF err # "" THEN Revert("mintLease", err)
         ELSE /\ tokenIds < MaxTokens
              /\ tokenIds' = tokenIds + 1
              /\ leaseInfo' = Append(leaseInfo,
                                     [domainName |-> domainName, lessor |-> lessor,
                                      lessee |-> lessee, startDate |-> startDate,
                                      endDate |-> endDate, active |-> TRUE])
              /\ domainToToken' = [domainToToken EXCEPT ![domainName] = tokenIds + 1]
              /\ owners' = Append(owners, lessee)
              /\ Done("mintLease")
  /\ UNCHANGED <<webVars, authVars, browseVars>>

\* terminateLease writes lease.active and nothing else: domainToToken is as before
Terminated(tokenId) == UNCHANGED domainToToken

\* a terminateLease open to every caller
AnyoneMayTerminate(sender, tokenId) == TRUE

\* msg.sender == lease.lessor || msg.sender == owner()
MayTerminate(sender, tokenId) ==
  sender = leaseInfo[tokenId].lessor \/ sender = ContractOwner

terminateLease(sender, tokenId) ==
  /\ LET err == IF ~Exists(tokenId) THEN "Token does not exist"
                ELSE IF ~MayTerminate(sender, tokenId)
                THEN "Only lessor or owner can terminate"
                ELSE IF ~leaseInfo[tokenId].active THEN "Lease already inactive"
                ELSE ""
     IN  IF err # "" THEN Revert("terminateLease", err)
         ELSE /\ leaseInfo' = [leaseInfo EXCEPT ![tokenId].active = FALSE]
              /\ Terminated(tokenId)
              /\ Done("terminateLease")
              /\ UNCHANGED <<tokenIds, owners>>
  /\ UNCHANGED <<webVars, authVars, browseVars>>

\* require(to != address(0), ...) of ERC721._transfer fails
ToZero(to) == to = ZeroAddress

\* a _transfer that leaves the lease as it is
TransferredKeepingLessee(tokenId, to) == UNCHANGED leaseInfo

\* a _transfer that also switches the lease on again
TransferredReactivating(tokenId, to) ==
  leaseInfo' = [leaseInfo EXCEPT ![tokenId].lessee = to, ![tokenId].active = TRUE]

\* leases[tokenId].lessee = to, after super._transfer
Transferred(tokenId, to) == leaseInfo' = [leaseInfo EXCEPT ![tokenId].lessee = to]

\* ERC721.transferFrom by the token's owner, through the overridden _transfer
transferFrom(sender, from, to, tokenId) ==
  /\ LET err == IF ~Exists(tokenId) THEN "ERC721: invalid token ID"
                ELSE IF owners[tokenId] # sender
                THEN "ERC721: caller is not token owner or approved"
                ELSE IF owners[tokenId] # from
                THEN "ERC721: transfer from incorrect owner"
                ELSE IF ToZero(to) THEN "ERC721: transfer to the zero address"
                ELSE ""
     IN  IF err # "" THEN Revert("transferFrom", err)
         ELSE /\ owners' = [owners EXCEPT ![tokenId] = to]
              /\ Transferred(tokenId, to)
              /\ Done("transferFrom")
              /\ UNCHANGED <<tokenIds, domainToToken>>
  /\ UNCHANGED <<webVars, authVars, browseVars>>

(***************************************************************************)
(* setPlatformFee and setTreasury write platformFee and treasury, which no *)
(* other function reads except withdrawFees and calculatePlatformFee; of   *)
(* the two calls the model keeps the outcome and that the token storage is *)
(* not written.                                                            *)
(***************************************************************************)
Fees == {500, 1001}

setPlatformFee(sender, fee) ==
  /\ LET err == IF sender # ContractOwner THEN "Ownable: caller is not the owner"
                ELSE IF ~(fee <= 1000) THEN "Fee cannot exceed 10%"
                ELSE ""
     IN  IF err # "" THEN Revert("setPlatformFee", err)
         ELSE Done("setPlatformFee")
              /\ UNCHANGED <<tokenIds, leaseInfo, domainToToken, owners>>
  /\ UNCHANGED <<webVars, authVars, browseVars>>

setTreasury(sender, treasury) ==
  /\ LET err == IF sender # ContractOwner THEN "Ownable: caller is not the owner"
                ELSE IF treasury = ZeroAddress THEN "Invalid treasury address"
                ELSE ""
     IN  IF err # "" THEN Revert("setTreasury", err)
         ELSE Done("setTreasury")
              /\ UNCHANGED <<tokenIds, leaseInfo, domainToToken, owners>>
  /\ UNCHANGED <<webVars, authVars, browseVars>>

NextNFT ==
  \/ \E sender \in Accounts, lessor \in Lessors, lessee \in Addresses,
        n \in ChainNames, d1 \in Dates, d2 \in Dates :
        mintLease(sender, lessor, lessee, n, d1, d2)
  \/ \E sender \in Accounts, t \in AllTokenIds : terminateLease(sender, t)
  \/ \E sender \in Accounts, from \in Accounts, to \in Addresses, t \in AllTokenIds :
        transferFrom(sender, from, to, t)
  \/ \E sender \in Accounts, fee \in Fees : setPlatformFee(sender, fee)
  \/ \E sender \in Accounts, t \in Addresses : setTreasury(sender, t)

(***************************************************************************)
(* routes/auth.js and the authenticate middleware.  Time is counted in     *)
(* weeks.  A token is the payload { userId, exp } with its signature; held  *)
(* is the set of tokens the server has issued and clients still keep.  A   *)
(* user's id is the position of the row in users.                          *)
(***************************************************************************)
MaxTime == 2
MaxHeld == 2

\* expiresIn: '7d', one week
TokenTTL == 1

Emails == {"a@x.io", "b@x.io"}
NoToken == [userId |-> 0, exp |-> 0, sig |-> "none"]
\* a token whose signature does not verify with JWT_SECRET
ForgedToken == [userId |-> 1, exp |-> MaxTime + TokenTTL, sig |-> "bad"]
\* a token the server signed for a user whose row is no longer in the table
GhostId == 9
GhostToken == [userId |-> GhostId, exp |-> TokenTTL, sig |-> "good"]

AllUserIds == 1..Cardinality(Emails)
AllTokens ==
  [userId : AllUserIds, exp : TokenTTL..(MaxTime + TokenTTL), sig : {"good"}]
    \cup {NoToken, ForgedToken, GhostToken}

\* what a client can send: nothing, a forged token, or a token the server signed
Presentable(tok) == tok \in {NoToken, ForgedToken, GhostToken} \/ tok \in held

IdleAuth == [pc |-> "idle", email |-> "none"]

\* the values of User.create, with the defaults of the model for the rest
NewUser(email, walletAddress) ==
  [email |-> email, walletAddress |-> walletAddress,
   isPro |-> FALSE, proExpiresAt |-> NoValue]

\* walletAddress of a User that registered with email and password (NULL)
NoWallet == [prefix |-> "", rest |-> ""]

\* res.status(code).json({ error }): the route, the status and the error
\* field of the response sent last (error is empty on success)
NoAuthResponse == [kind |-> "none", resp |-> 0, error |-> ""]

AuthInit ==
  /\ users = << >>
  /\ held = {}
  /\ now = 0
  /\ areq = [s \in Slots |-> IdleAuth]
  /\ alast = NoAuthResponse

AuthRespond(kind, code, error) == alast' = [kind |-> kind, resp |-> code, error |-> error]

\* jwt.sign({ userId }, JWT_SECRET, { expiresIn: '7d' })
generateToken(userId) == [userId |-> userId, exp |-> now + TokenTTL, sig |-> "good"]

\* the client keeps the token of the response, in place of an older one
\* when it holds MaxHeld already
Keep(tok) ==
  IF tok \in held \/ Cardinality(held) < MaxHeld
  THEN held' = held \cup {tok}
  ELSE \E old \in held : held' = (held \ {old}) \cup {tok}

\* User.findByPk(id): 0 when there is no such row (also for an undefined id)
FindByPk(id) == IF id \in 1..Len(users) THEN id ELSE 0

\* User.findOne({ where: { email } })
FindByEmail(email) ==
  IF \E u \in 1..Len(users) : users[u].email = email
  THEN CHOOSE u \in 1..Len(users) : users[u].email = email
  ELSE 0

\* a verification that never looks at exp
VerifyNoExpiry(tok, ignoreExpiration) ==
  IF tok.sig # "good" THEN "JsonWebTokenError" ELSE ""

\* a verification that looks at exp whatever the options say
VerifyStrict(tok, ignoreExpiration) ==
  IF tok.sig # "good" THEN "JsonWebTokenError"
  ELSE IF now >= tok.exp THEN "TokenExpiredError"
  ELSE ""

\* jwt.verify(token, JWT_SECRET, { ignoreExpiration }): the name of the
\* error it throws, empty when it returns the payload
Verify(tok, ignoreExpiration) ==
  IF tok.sig # "good" THEN "JsonWebTokenError"
  ELSE IF ~ignoreExpiration /\ now >= tok.exp THEN "TokenExpiredError"
  ELSE ""

\* authenticate: the error of its 401 response, empty when it calls next()
Authenticate(tok) ==
  IF tok = NoToken THEN "Authentication required"
  ELSE IF Verify(tok, FALSE) = "JsonWebTokenError" THEN "Invalid token"
  ELSE IF Verify(tok, FALSE) = "TokenExpiredError" THEN "Token expired"
  ELSE IF FindByPk(tok.userId) = 0 THEN "User not found"
  ELSE ""

(***************************************************************************)
(* A route mounted behind authenticate (server.js: /api/leases, /api/users,*)
(* /api/verification, /api/nft, /api/ai; routes/domains.js: POST, PATCH,   *)
(* DELETE /listings, GET /recommendations).  The handler answers 200.      *)
(***************************************************************************)
Protected(tok) ==
  /\ Presentable(tok)
  /\ IF Authenticate(tok) # ""
     THEN AuthRespond("protected", 401, Authenticate(tok))
     ELSE AuthRespond("protected", 200, "")
  /\ UNCHANGED <<users, held, now, areq, webVars, chainVars, browseVars>>

(***************************************************************************)
(* GET /api/auth/me.  server.js mounts /api/auth without authenticate and  *)
(* the route has no middleware of its own, so req.userId is undefined.     *)
(***************************************************************************)
\* req.userId as the handler finds it: no middleware has set it
MeUserId(tok) == 0

Me(tok) ==
  /\ Presentable(tok)
  /\ IF FindByPk(MeUserId(tok)) = 0
     THEN AuthRespond("me", 404, "User not found")
     ELSE AuthRespond("me", 200, "")
  /\ UNCHANGED <<users, held, now, areq, webVars, chainVars, browseVars>>

(***************************************************************************)
(* POST /api/auth/refresh                                                  *)
(***************************************************************************)
Refresh(tok) ==
  /\ Presentable(tok)
  /\ IF tok = NoToken
     THEN AuthRespond("refresh", 401, "No token provided") /\ UNCHANGED held
     ELSE IF Verify(tok, TRUE) # ""
     THEN AuthRespond("refresh", 401, "Invalid token") /\ UNCHANGED held
     ELSE IF FindByPk(tok.userId) = 0
     THEN AuthRespond("refresh", 404, "User not found") /\ UNCHANGED held
     ELSE AuthRespond("refresh", 200, "") /\ Keep(generateToken(FindByPk(tok.userId)))
  /\ UNCHANGED <<users, now, areq, webVars, chainVars, browseVars>>

(***************************************************************************)
(* POST /api/auth/register: findOne, then (after bcrypt) User.create       *)
(***************************************************************************)
\* a Users table without the unique index on email
EmailTakenNoIndex(email) == FALSE

\* the unique constraint on User.email
EmailTaken(email) == \E u \in 1..Len(users) : users[u].email = email

RegisterFind(s, email) ==
  /\ areq[s].pc = "idle"
  /\ \A s2 \in Slots : s2 < s => areq[s2].pc # "idle"
  /\ IF FindByEmail(email) # 0
     THEN AuthRespond("register", 409, "User already exists") /\ UNCHANGED areq
     ELSE /\ areq' = [areq EXCEPT ![s] = [pc |-> "register_create", email |-> email]]
          /\ UNCHANGED alast
  /\ UNCHANGED <<users, held, now, webVars, chainVars, browseVars>>

RegisterCreate(s) ==
  /\ areq[s].pc = "register_create"
  /\ areq' = [areq EXCEPT ![s] = IdleAuth]
  /\ IF EmailTaken(areq[s].email)
     THEN AuthRespond("register", 500, "Registration failed") /\ UNCHANGED <<users, held>>
     ELSE /\ users' = Append(users, NewUser(areq[s].email, NoWallet))
          /\ Keep(generateToken(Len(users) + 1))
          /\ AuthRespond("register", 201, "")
  /\ UNCHANGED <<now, webVars, chainVars, browseVars>>

\* a week passes
Tick ==
  /\ now < MaxTime
  /\ now' = now + 1
  /\ UNCHANGED <<users, held, areq, alast, webVars, chainVars, browseVars>>

NextAuth ==
  \/ \E tok \in AllTokens : Protected(tok)
  \/ \E tok \in AllTokens : Me(tok)
  \/ \E tok \in AllTokens : Refresh(tok)
  \/ \E s \in Slots, e \in Emails : RegisterFind(s, e)
  \/ \E s \in Slots : RegisterCreate(s)
  \/ Tick

(***************************************************************************)
(* POST /api/auth/wallet-login.  An address is kept as the client spells   *)
(* it, in two parts: its first ten characters (the part that goes into the *)
(* e-mail of a new User) and the rest.  "0xab" and "0xAB" are two          *)
(* spellings of the same ten characters.                                   *)
(***************************************************************************)
WalletPrefixes == {"0xab", "0xAB"}
WalletRests == {"cd", "ef"}
WalletSpellings == [prefix : WalletPrefixes, rest : WalletRests]

\* String.prototype.toLowerCase
ToLowerCase(str) ==
  IF str = "0xAB" THEN "0xab" ELSE IF str = "A" THEN "a" ELSE str

LowerAddress(a) == [prefix |-> ToLowerCase(a.prefix), rest |-> ToLowerCase(a.rest)]

\* the wallets: an Ethereum address is the same in every letter case
Wallets == {LowerAddress(a) : a \in WalletSpellings}

\* ethers.verifyMessage(message, signature): the signer's address, in the
\* mixed-case checksum spelling
VerifyMessage(signer) == [prefix |-> "0xAB", rest |-> signer.rest]

\* recoveredAddress.toLowerCase() !== walletAddress.toLowerCase()
InvalidSignature(walletAddress, signer) ==
  LowerAddress(VerifyMessage(signer)) # LowerAddress(walletAddress)

\* `${walletAddress.substring(0, 10)}@wallet.godwallet.com`
WalletEmail(walletAddress) == walletAddress.prefix \o "@wallet.godwallet.com"

\* User.findOne({ where: { walletAddress } }): the comparison of the
\* database is exact, letter case included
FindByWallet(walletAddress) ==
  IF \E u \in 1..Len(users) : users[u].walletAddress = walletAddress
  THEN CHOOSE u \in 1..Len(users) : users[u].walletAddress = walletAddress
  ELSE 0

\* the unique constraint on User.walletAddress
WalletTaken(walletAddress) ==
  \E u \in 1..Len(users) : users[u].walletAddress = walletAddress

\* res.json({ token, user: { id, ... } }) and the error responses
WalletRespond(code, error, userId) ==
  alast' = [kind |-> "wallet-login", resp |-> code, error |-> error, userId |-> userId]

WalletFind(s, walletAddress, signer) ==
  /\ areq[s].pc = "idle"
  /\ \A s2 \in Slots : s2 < s => areq[s2].pc # "idle"
  /\ IF InvalidSignature(walletAddress, signer)
     THEN WalletRespond(401, "Invalid signature", 0) /\ UNCHANGED areq
     ELSE /\ areq' = [areq EXCEPT ![s] =
                        [pc |-> IF FindByWallet(walletAddress) = 0
                                THEN "wallet_create" ELSE "wallet_update",
                         email |-> WalletEmail(walletAddress),
                         walletAddress |-> walletAddress,
                         userId |-> FindByWallet(walletAddress)]]
          /\ UNCHANGED alast
  /\ UNCHANGED <<users, held, now, webVars, chainVars, browseVars>>

\* User.create for a wallet that findOne did not find
WalletCreate(s) ==
  /\ areq[s].pc = "wallet_create"
  /\ areq' = [areq EXCEPT ![s] = IdleAuth]
  /\ IF WalletTaken(areq[s].walletAddress) \/ EmailTaken(areq[s].email)
     THEN WalletRespond(500, "Wallet login failed", 0) /\ UNCHANGED <<users, held>>
     ELSE /\ users' = Append(users, NewUser(areq[s].email, areq[s].walletAddress))
          /\ Keep(generateToken(Len(users) + 1))
          /\ WalletRespond(200, "", Len(users) + 1)
  /\ UNCHANGED <<now, webVars, chainVars, browseVars>>

\* user.update({ lastActive }) for the User that findOne found
WalletUpdate(s) ==
  /\ areq[s].pc = "wallet_update"
  /\ areq' = [areq EXCEPT ![s] = IdleAuth]
  /\ Keep(generateToken(areq[s].userId))
  /\ WalletRespond(200, "", areq[s].userId)
  /\ UNCHANGED <<users, now, webVars, chainVars, browseVars>>

NextWallet ==
  \/ \E s \in Slots, a \in WalletSpellings, w \in Wallets : WalletFind(s, a, w)
  \/ \E s \in Slots : WalletCreate(s)
  \/ \E s \in Slots : WalletUpdate(s)

(***************************************************************************)
(* requirePro, after the middleware that sets req.user: authenticate, or   *)
(* optionalAuth, which lets a request without a valid token go on without  *)
(* req.user.  The handler behind requirePro answers 200.                   *)
(***************************************************************************)
\* optionalAuth: req.userId, 0 when it goes on without a user
OptionalAuth(tok) ==
  IF tok = NoToken THEN 0
  ELSE IF Verify(tok, FALSE) # "" THEN 0
  ELSE FindByPk(tok.userId)

\* the values of User.proExpiresAt: NULL, or a date
ProDates == {NoValue} \cup {<<t>> : t \in 0..MaxTime}

\* a middleware that never looks at proExpiresAt
ProNeverExpires(user) == FALSE

\* req.user.proExpiresAt && new Date(req.user.proExpiresAt) < new Date()
ProExpired(user) == user.proExpiresAt # NoValue /\ user.proExpiresAt[1] < now

RequirePro(tok, required) ==
  /\ Presentable(tok)
  /\ LET u == OptionalAuth(tok)
     IN  IF required /\ Authenticate(tok) # ""
         THEN AuthRespond("pro", 401, Authenticate(tok)) /\ UNCHANGED users
         ELSE IF u = 0
         THEN AuthRespond("pro", 401, "Authentication required") /\ UNCHANGED users
         ELSE IF ~users[u].isPro
         THEN AuthRespond("pro", 403, "Pro subscription required") /\ UNCHANGED users
         ELSE IF ProExpired(users[u])
         THEN /\ users' = [users EXCEPT ![u].isPro = FALSE, ![u].proExpiresAt = NoValue]
              /\ AuthRespond("pro", 403, "Pro subscription expired")
         ELSE AuthRespond("pro", 200, "") /\ UNCHANGED users
  /\ UNCHANGED <<held, now, areq, webVars, chainVars, browseVars>>

(***************************************************************************)
(* GET /api/domains/recommendations                                        *)
(***************************************************************************)
\* an InteractionHistory that belongs to a Domain under the alias 'domain'
HistoryHasDomainAssociated == TRUE

\* the associations of InteractionHistory: models/index.js gives it one,
\* to User; the include of Domain as 'domain' makes findAll throw
HistoryHasDomain == FALSE

\* the elements of a set of numbers, in ascending order
RECURSIVE Ascending(_)
Ascending(S) ==
  IF S = {} THEN << >>
  ELSE LET m == CHOOSE x \in S : \A y \in S : x <= y
       IN  <<m>> \o Ascending(S \ {m})

\* status: 'active' and priceAmount between user.budgetMin and
\* user.budgetMax, both 0 by the defaults of the model
Recommended ==
  {id \in 1..Len(listings) :
     /\ listings[id].status = "active"
     /\ listings[id].priceAmount >= 0
     /\ listings[id].priceAmount <= 0}

Recommendations(tok) ==
  /\ Presentable(tok)
  /\ IF Authenticate(tok) # ""
     THEN AuthRespond("recommendations", 401, Authenticate(tok)) /\ UNCHANGED found
     ELSE IF ~users[tok.userId].isPro
     THEN AuthRespond("recommendations", 403, "Pro subscription required")
          /\ UNCHANGED found
     ELSE IF ~HistoryHasDomain
     THEN AuthRespond("recommendations", 500, "Failed to get recommendations")
          /\ UNCHANGED found
     ELSE /\ AuthRespond("recommendations", 200, "")
          /\ found' = [kind |-> "recommendations", ids |-> Ascending(Recommended),
                       total |-> Cardinality(Recommended)]
  /\ UNCHANGED <<users, held, now, areq, webVars, chainVars, history>>

(***************************************************************************)
(* GET /api/domains/listings and GET /api/domains/listings/:id.  A query   *)
(* parameter is a string, Undef when absent.  The rows of the two tables   *)
(* carry here the columns the filters read: domainType and existingSiteUrl *)
(* of the Domain.                                                          *)
(***************************************************************************)
MaxHistory == 3

\* no parameter at all
PlainQuery ==
  [search |-> Undef, type |-> Undef, minPrice |-> Undef, maxPrice |-> Undef,
   withSite |-> Undef, tags |-> Undef, order |-> Undef, page |-> Undef, limit |-> Undef]

\* the second page of pages of one row, and the oldest first
PagedQueries ==
  { [PlainQuery EXCEPT !.page = "2", !.limit = "1"],
    [PlainQuery EXCEPT !.type = "all", !.withSite = "false", !.order = "ASC"] }

\* every combination of the six filters, and the paged queries
Queries ==
  [search : {Undef, "A"}, type : {Undef, "web3"}, minPrice : {Undef, "2"},
   maxPrice : {Undef, "2"}, withSite : {Undef, "true"}, tags : {Undef, "t"},
   order : {Undef}, page : {Undef}, limit : {Undef}]
    \cup PagedQueries

\* the queries of a visitor who browses: no filter, one filter, a page
BrowseQueries ==
  {PlainQuery, [PlainQuery EXCEPT !.maxPrice = "2"]} \cup PagedQueries

\* a string is falsy when it is undefined or empty
Truthy(str) == str \notin {Undef, ""}

\* parseFloat and parseInt of the numerals the queries carry; the defaults
\* of the destructuring are page = 1 and limit = 20
ParseNumber(str) ==
  CASE str = "1" -> 1 [] str = "2" -> 2 [] str = "20" -> 20

DefaultTo(str, d) == IF str = Undef THEN d ELSE str

\* tags.split(',')
Split(str) == {str}

\* column ILIKE '%pattern%'
Contains == {<<"a", "a.com">>, <<"a", "a">>}
ILike(text, pattern) == <<ToLowerCase(pattern), ToLowerCase(text)>> \in Contains

\* a where clause without the status
StatusWhereAny(listing) == TRUE

\* const where = { status: 'active' }
StatusWhere(listing) == listing.status = "active"

PriceWhere(listing, q) ==
  /\ Truthy(q.minPrice) => listing.priceAmount >= ParseNumber(q.minPrice)
  /\ Truthy(q.maxPrice) => listing.priceAmount <= ParseNumber(q.maxPrice)

TagsWhere(listing, q) == Truthy(q.tags) => listing.tags \cap Split(q.tags) # {}

DomainWhere(domain, q) ==
  /\ (Truthy(q.type) /\ q.type # "all") => domain.domainType = q.type
  /\ q.withSite = "true" => domain.existingSiteUrl # Null

SearchWhere(listing, domain, q) ==
  Truthy(q.search) =>
     \/ ILike(domain.domainName, q.search)
     \/ ILike(listing.description, q.search)
     \/ ToLowerCase(q.search) \in listing.tags

\* the rows of findAndCountAll before limit and offset
Matching(q) ==
  {id \in 1..Len(listings) :
     /\ StatusWhere(listings[id])
     /\ PriceWhere(listings[id], q)
     /\ TagsWhere(listings[id], q)
     /\ DomainWhere(domains[listings[id].domainId], q)
     /\ SearchWhere(listings[id], domains[listings[id].domainId], q)}

Reverse(seq) == [i \in 1..Len(seq) |-> seq[Len(seq) + 1 - i]]

\* order: [[sortBy, order]] with sortBy = 'createdAt', the order of the ids
Ordered(S, q) ==
  IF DefaultTo(q.order, "DESC") = "ASC" THEN Ascending(S) ELSE Reverse(Ascending(S))

\* limit and offset
Page(seq, q) ==
  LET limit == ParseNumber(DefaultTo(q.limit, "20"))
      offset == (ParseNumber(DefaultTo(q.page, "1")) - 1) * limit
  IN  SubSeq(seq, offset + 1, IF offset + limit < Len(seq) THEN offset + limit ELSE Len(seq))

\* listings.slice(0, 5)
FirstFive(seq) == SubSeq(seq, 1, IF Len(seq) < 5 THEN Len(seq) ELSE 5)

\* a write that puts the new rows in place of the table
TrackedOverwriting(entries) == history' = entries

\* InteractionHistory.create and bulkCreate: rows are inserted
Tracked(entries) == history' = history \o entries

\* the table has room for n more rows
HistoryHasRoom(n) == Len(history) + n <= MaxHistory

Search(tok, q) ==
  /\ Presentable(tok)
  /\ LET rows == Page(Ordered(Matching(q), q), q)
         viewed == FirstFive(rows)
     IN  /\ IF OptionalAuth(tok) # 0
            THEN /\ HistoryHasRoom(Len(viewed))
                 /\ Tracked([i \in 1..Len(viewed) |->
                               [userId |-> OptionalAuth(tok), domainId |-> 0,
                                listingId |-> viewed[i], source |-> "marketplace"]])
            ELSE UNCHANGED history
         /\ found' = [kind |-> "listings", ids |-> rows,
                      total |-> Cardinality(Matching(q))]
  /\ UNCHANGED <<webVars, chainVars, authVars>>

\* viewsCount, which the handler increments, is not a column of the model
View(tok, id) ==
  /\ Presentable(tok)
  /\ id \in 1..(Len(listings) + 1)
  /\ IF id \notin 1..Len(listings)
     THEN /\ found' = [kind |-> "listing", ids |-> << >>, total |-> 0]
          /\ UNCHANGED history
     ELSE /\ IF OptionalAuth(tok) # 0
             THEN /\ HistoryHasRoom(1)
                  /\ Tracked(<<[userId |-> OptionalAuth(tok),
                                domainId |-> listings[id].domainId,
                                listingId |-> id, source |-> "direct_link"]>>)
             ELSE UNCHANGED history
          /\ found' = [kind |-> "listing", ids |-> <<id>>, total |-> 1]
  /\ UNCHANGED <<webVars, chainVars, authVars>>

NextSearch == \E tok \in AllTokens, q \in Queries : Search(tok, q)

NextBrowse ==
  \/ \E tok \in AllTokens, q \in BrowseQueries : Search(tok, q)
  \/ \E tok \in AllTokens, id \in 1..(MaxListings + 1) : View(tok, id)
  \/ \E tok \in AllTokens : Recommendations(tok)

NextPro ==
  \/ \E tok \in AllTokens, required \in BOOLEAN : RequirePro(tok, required)
  \/ \E tok \in AllTokens : Recommendations(tok)
  \/ \E tok \in AllTokens : Refresh(tok)
  \/ Tick

AllIds == 1..(MaxListings + 1)
AllLeaseIds == 1..MaxRequests

Next ==
  \/ \E s \in Slots, u \in UserIds, n \in DomainNames, t \in PostBodies : PostFind(s, u, n, t)
  \/ \E s \in Slots : PostCreateDomain(s)
  \/ \E s \in Slots : PostCreateListing(s)
  \/ \E s \in Slots, u \in UserIds, id \in AllIds, b \in PatchBodies : PatchFind(s, u, id, b)
  \/ \E s \in Slots : PatchUpdate(s)
  \/ \E s \in Slots, u \in UserIds, id \in AllIds : DeleteFind(s, u, id)
  \/ \E s \in Slots : DeleteUpdate(s)
  \/ \E s \in Slots, u \in UserIds, id \in AllIds, nft \in Issuance : CreateLease(s, u, id, nft)
  \/ \E s \in Slots, k \in AllLeaseIds, unbound \in BOOLEAN : TerminateLease(s, k, unbound)

\* no interaction recorded, no listing read yet
NoneFound == [kind |-> "none", ids |-> << >>, total |-> 0]

BrowseInit ==
  /\ history = << >>
  /\ found = NoneFound

Init == WebInit /\ ChainInit /\ AuthInit /\ BrowseInit

Spec == Init /\ [][Next]_vars

\* the database holds one Listing, published by u1 for a.com before the
\* requests that are followed
WebInitListed ==
  /\ domains = << [domainName |-> "a.com", ownerId |-> "u1"] >>
  /\ listings = << NewListing(1, "u1", PlainTerms) >>
  /\ leases = << >>
  /\ bindings = {}
  /\ req = [s \in Slots |-> IdleReq]
  /\ nreq = 0
  /\ last = NoResponse

InitLease == (WebInit \/ WebInitListed) /\ ChainInit /\ AuthInit /\ BrowseInit

\* the listing and lease routes over an empty database or over one Listing
SpecLease == InitLease /\ [][Next]_vars

SpecNFT == Init /\ [][NextNFT]_vars

SpecAuth == Init /\ [][NextAuth]_vars
SpecWallet == Init /\ [][NextWallet]_vars

\* one registered User, with any subscription, holding the token of the login
AuthInitPro ==
  /\ \E pro \in BOOLEAN, d \in ProDates :
        users = <<[NewUser("a@x.io", NoWallet) EXCEPT !.isPro = pro, !.proExpiresAt = d]>>
  /\ now = 0
  /\ held = {generateToken(1)}
  /\ areq = [s \in Slots |-> IdleAuth]
  /\ alast = NoAuthResponse

InitPro == WebInit /\ ChainInit /\ AuthInitPro /\ BrowseInit

\* two Domains: a web2 name without a site and a web3 name with one
BrowseDomains ==
  << [domainName |-> "a.com", ownerId |-> "u1", domainType |-> "web2",
      existingSiteUrl |-> Null],
     [domainName |-> "b.io", ownerId |-> "u2", domainType |-> "web3",
      existingSiteUrl |-> "https://b.io"] >>

\* a Listing of the domain with id d, in the given status
BrowseListing(d, status) ==
  IF d = 1
  THEN [NewListing(1, "u1", [PlainTerms EXCEPT !.description = "a", !.tags = <<{"t"}>>])
          EXCEPT !.status = status]
  ELSE [NewListing(2, "u2", [PlainTerms EXCEPT !.price = <<3>>])
          EXCEPT !.status = status]

\* a marketplace with up to MaxListings Listings, each in any status
WebInitMarket ==
  /\ domains = BrowseDomains
  /\ \E n \in 0..MaxListings :
        \E st \in [1..n -> ListingStatus], d \in [1..n -> 1..Len(BrowseDomains)] :
           listings = [i \in 1..n |-> BrowseListing(d[i], st[i])]
  /\ leases = << >>
  /\ bindings = {}
  /\ req = [s \in Slots |-> IdleReq]
  /\ nreq = 0
  /\ last = NoResponse

InitSearch == WebInitMarket /\ ChainInit /\ AuthInit /\ BrowseInit
SpecSearch == InitSearch /\ [][NextSearch]_vars

\* an active Listing of a.com and a leased one of b.io
WebInitBrowse ==
  /\ domains = BrowseDomains
  /\ listings = <<BrowseListing(1, "active"), BrowseListing(2, "leased")>>
  /\ leases = << >>
  /\ bindings = {}
  /\ req = [s \in Slots |-> IdleReq]
  /\ nreq = 0
  /\ last = NoResponse

\* one User with a Pro subscription, holding the token of the login
AuthInitBrowse ==
  /\ users = <<[NewUser("a@x.io", NoWallet) EXCEPT !.isPro = TRUE]>>
  /\ now = 0
  /\ held = {generateToken(1)}
  /\ areq = [s \in Slots |-> IdleAuth]
  /\ alast = NoAuthResponse

InitBrowse == WebInitBrowse /\ ChainInit /\ AuthInitBrowse /\ BrowseInit
SpecBrowse == InitBrowse /\ [][NextBrowse]_vars
SpecPro == InitPro /\ [][NextPro]_vars

(***************************************************************************)
(* Steps of a request, as seen on a pair of states.                        *)
(***************************************************************************)
\* user u sends PATCH, DELETE for listing id, or POST for domain name n
PatchBy(u, id) == \E s \in Slots, b \in PatchBodies : PatchFind(s, u, id, b)
DeleteBy(u, id) == \E s \in Slots : DeleteFind(s, u, id)
PostBy(u, n) == \E s \in Slots, t \in PostBodies : PostFind(s, u, n, t)

\* the request is answered by the step that received it
AnsweredAtOnce(kind, code) == req' = req /\ last' = [kind |-> kind, resp |-> code]

\* slot s performs the last database write of its handler
Writes(s, pc) == req[s].pc = pc /\ req'[s].pc = "idle"

Ids == 1..Len(listings)

(***************************************************************************)
(* C1: in every reachable state a Listing has status 'leased' if and only  *)
(* if exactly one Lease referencing it has status 'active'.                *)
(***************************************************************************)
LeasedIffOneActiveLease ==
  \A id \in Ids : (listings[id].status = "leased") <=> (Cardinality(ActiveLeases(id)) = 1)

(***************************************************************************)
(* C2: no PATCH moves a Listing's status off the lifecycle                 *)
(* active -> leased -> expired/cancelled (with cancel from active and      *)
(* release back to active): a PATCH leaves the status or follows an edge.  *)
(***************************************************************************)
LifecycleEdges ==
  { <<"active", "leased">>, <<"leased", "active">>, <<"leased", "expired">>,
    <<"leased", "cancelled">>, <<"active", "cancelled">>, <<"active", "expired">> }

PatchFollowsLifecycle ==
  [][\A s \in Slots : Writes(s, "patch_update") =>
        LET id == req[s].id
        IN  \/ listings'[id].status = listings[id].status
            \/ <<listings[id].status, listings'[id].status>> \in LifecycleEdges]_vars

(***************************************************************************)
(* C3: once a Listing is 'cancelled', no step changes its status, price,   *)
(* description, restrictions or tags.                                      *)
(***************************************************************************)
CancelledIsImmutable ==
  [][\A id \in Ids : listings[id].status = "cancelled" =>
        /\ listings'[id].status = "cancelled"
        /\ listings'[id].priceAmount = listings[id].priceAmount
        /\ listings'[id].description = listings[id].description
        /\ listings'[id].restrictions = listings[id].restrictions
        /\ listings'[id].tags = listings[id].tags]_vars

(***************************************************************************)
(* C4: a cancel by the lessor succeeds only from status 'active'; from     *)
(* 'leased', 'expired' or 'cancelled' it is answered with the client error *)
(* 400 and the Listing is unchanged.                                       *)
(***************************************************************************)
CancelOnlyFromActive ==
  [][/\ \A s \in Slots : (Writes(s, "delete_update") /\ last'.resp = 200)
                            => req[s].snap.status = "active"
     /\ \A u \in UserIds, id \in AllIds :
          (/\ nreq' = nreq + 1
           /\ id \in Ids
           /\ listings[id].lessorId = u
           /\ listings[id].status # "active"
           /\ DeleteBy(u, id))
          => (AnsweredAtOnce("delete", 400) /\ listings' = listings)]_vars

(***************************************************************************)
(* C5: a PATCH or DELETE by an authenticated user who is not the Listing's *)
(* lessor is answered 403 and changes no field of any Listing; no handler  *)
(* writes a Listing whose lessor is not the requesting user.               *)
(***************************************************************************)
OnlyLessorUpdatesOrCancels ==
  [][/\ \A u \in UserIds, id \in AllIds :
          (nreq' = nreq + 1 /\ id \in Ids /\ listings[id].lessorId # u)
          => /\ PatchBy(u, id) => (AnsweredAtOnce("patch", 403) /\ listings' = listings)
             /\ DeleteBy(u, id) => (AnsweredAtOnce("delete", 403) /\ listings' = listings)
     /\ \A s \in Slots : (Writes(s, "patch_update") \/ Writes(s, "delete_update"))
                            => listings[req[s].id].lessorId = req[s].userId]_vars

NonLessorRejected ==
  /\ last.kind \in {"patch", "delete"}
  /\ last.resp = 403
  /\ Len(listings) >= 1

(***************************************************************************)
(* C6: a publish naming a Domain that exists and is owned by another user  *)
(* is answered 403; it creates no Listing and no Domain row and leaves the *)
(* Domain's owner as it was.                                               *)
(***************************************************************************)
ForeignDomain(name, userId) ==
  \E d \in 1..Len(domains) : domains[d].domainName = name /\ domains[d].ownerId # userId

PublishForeignDomainFails ==
  [][\A u \in UserIds, n \in DomainNames :
        (nreq' = nreq + 1 /\ ForeignDomain(n, u) /\ PostBy(u, n))
        => (AnsweredAtOnce("post", 403) /\ listings' = listings /\ domains' = domains)]_vars

ForeignPublishRejected ==
  /\ last = [kind |-> "post", resp |-> 403]
  /\ Len(domains) >= 1

(***************************************************************************)
(* C7: publish refuses a price <= 0 or a duration <= 0, so every persisted *)
(* Listing has priceAmount > 0 and durationDays > 0.                       *)
(***************************************************************************)
PersistedTermsPositive ==
  \A id \in Ids : listings[id].priceAmount > 0 /\ listings[id].durationDays > 0

(***************************************************************************)
(* C8: a successful publish creates its Listing in status 'active', and a  *)
(* cancel by the lessor that follows with nothing in between is accepted,  *)
(* answered 200 and leaves the Listing 'cancelled'.                        *)
(***************************************************************************)
PublishThenCancel ==
  [][/\ \A s \in Slots : (Writes(s, "post_create_listing") /\ last'.resp = 201)
          => /\ Len(listings') = Len(listings) + 1
             /\ listings'[Len(listings')].status = "active"
             /\ listings'[Len(listings')].lessorId = req[s].userId
     /\ \A u \in UserIds, id \in AllIds :
          (/\ nreq' = nreq + 1
           /\ id \in Ids
           /\ listings[id].lessorId = u
           /\ listings[id].status = "active"
           /\ DeleteBy(u, id))
          => \E s \in Slots : req[s].pc = "idle" /\ req'[s].pc = "delete_update"
     /\ \A s \in Slots :
          (/\ Writes(s, "delete_update")
           /\ listings[req[s].id] = req[s].snap
           /\ req[s].snap.status = "active")
          => /\ last' = [kind |-> "delete", resp |-> 200]
             /\ listings'[req[s].id].status = "cancelled"]_vars

PublishedThenCancelled ==
  /\ nreq = 2
  /\ \A s \in Slots : req[s].pc = "idle"
  /\ last = [kind |-> "delete", resp |-> 200]
  /\ Len(listings) = 1
  /\ listings[1].status = "cancelled"

(***************************************************************************)
(* C9: a cancel that lost a race (the Listing's status was written after   *)
(* the cancel read it) is answered with the conflict error 409 and writes  *)
(* nothing; in particular it never overwrites 'leased'.                    *)
(***************************************************************************)
CancelLosesRace ==
  [][\A s \in Slots :
        (Writes(s, "delete_update") /\ listings[req[s].id].status # req[s].snap.status)
        => (last'.resp = 409 /\ listings'[req[s].id] = listings[req[s].id])]_vars

(***************************************************************************)
(* C10: a domain name has at most one Domain row, hence one owner, also    *)
(* when two users publish the same unregistered name concurrently.         *)
(***************************************************************************)
UniqueDomainName ==
  \A d1, d2 \in 1..Len(domains) :
     domains[d1].domainName = domains[d2].domainName => d1 = d2

\* a publish that found no Domain is about to insert a name that the other
\* user's publish has inserted meanwhile
PublishRaceOnDomain ==
  \E s \in Slots : /\ req[s].pc = "post_create_domain"
                   /\ ForeignDomain(req[s].domainName, req[s].userId)

(***************************************************************************)
(* Steps of createLease, as seen on a pair of states.                      *)
(***************************************************************************)
CreateLeaseBy(u, id) == \E s \in Slots, nft \in Issuance : CreateLease(s, u, id, nft)

\* a createLease has committed: its Lease is the last row of leases
LeaseCreated == Len(leases') = Len(leases) + 1

ActiveLeasesIn(rows, id) ==
  {k \in 1..Len(rows) : rows[k].listingId = id /\ rows[k].status = "active"}

(***************************************************************************)
(* C11: createLease on a Listing whose status is not 'active' is answered  *)
(* with the invalid-state error 400; it creates no Lease and no token      *)
(* binding and leaves every Listing as it was.                             *)
(***************************************************************************)
CreateLeaseNeedsActive ==
  [][\A u \in UserIds, id \in AllIds :
        (/\ nreq' = nreq + 1
         /\ id \in Ids
         /\ listings[id].status # "active"
         /\ CreateLeaseBy(u, id))
        => /\ AnsweredAtOnce("createLease", 400)
           /\ leases' = leases
           /\ listings' = listings
           /\ bindings' = bindings]_vars

CreateLeaseRefused ==
  /\ last = [kind |-> "createLease", resp |-> 400]
  /\ \E id \in Ids : listings[id].status # "active"

LeasedHasActiveLease ==
  \A id \in Ids : listings[id].status = "leased" => ActiveLeases(id) # {}

IssuanceFailureRollsBack ==
  (nreq' = nreq + 1 /\ last'.kind = "createLease" /\ last'.resp \in {502, 503})
  => (listings' = listings /\ leases' = leases /\ bindings' = bindings)

CreateLeaseAllOrNothing == []LeasedHasActiveLease /\ [][IssuanceFailureRollsBack]_vars

(***************************************************************************)
(* Calls of the contract, as seen on a pair of states.                     *)
(***************************************************************************)
TokenIds == 1..Len(leaseInfo)

\* some account calls mintLease for domain name n
MintOf(n) ==
  \E sender \in Accounts, lessor \in Lessors, lessee \in Addresses,
     d1 \in Dates, d2 \in Dates : mintLease(sender, lessor, lessee, n, d1, d2)

\* the contract owner calls mintLease for n with a lessee and dates that pass
MintByOwner(n) ==
  \E lessor \in Lessors, lessee \in Accounts :
     mintLease(ContractOwner, lessor, lessee, n, 1, 2)

StorageUnchanged == UNCHANGED <<tokenIds, leaseInfo, domainToToken, owners>>

(***************************************************************************)
(* C14: mintLease for a domain name that has a token bound reverts and     *)
(* changes nothing (counter, leases, domainToToken, owners); at most one   *)
(* token is ever bound to a domain name.                                   *)
(***************************************************************************)
OneTokenPerDomain ==
  \A t1, t2 \in TokenIds : leaseInfo[t1].domainName = leaseInfo[t2].domainName => t1 = t2

MintOnBoundDomainReverts ==
  \A n \in ChainNames :
     (txn'.fn = "mintLease" /\ domainToToken[n] # 0 /\ MintOf(n))
     => (txn'.err # "" /\ StorageUnchanged)

BindingIsUnique == []OneTokenPerDomain /\ [][MintOnBoundDomainReverts]_vars

SecondMintRefused ==
  /\ txn = [fn |-> "mintLease", err |-> "Lease already exists for this domain"]
  /\ \E n \in ChainNames : domainToToken[n] # 0

(***************************************************************************)
(* C15: a successful terminateLease(tokenId) unbinds the token's domain,   *)
(* so a later mintLease for that domain name by the contract owner         *)
(* succeeds.                                                               *)
(***************************************************************************)
TerminateUnbindsDomain ==
  [][/\ txn' = [fn |-> "terminateLease", err |-> ""]
        => \A t \in TokenIds : (leaseInfo[t].active /\ ~leaseInfo'[t].active)
                                   => domainToToken'[leaseInfo[t].domainName] = 0
     /\ \A n \in ChainNames :
          (/\ txn'.fn = "mintLease"
           /\ domainToToken[n] # 0
           /\ ~leaseInfo[domainToToken[n]].active
           /\ MintByOwner(n))
          => txn'.err = ""]_vars

(***************************************************************************)
(* C16: every token has endDate > startDate, a non-empty domain name and a *)
(* non-zero lessee; a mintLease with an empty name, the zero lessee or     *)
(* endDate <= startDate reverts without any change, and neither a transfer *)
(* nor a terminate breaks the three facts.                                 *)
(***************************************************************************)
TokenFacts ==
  \A t \in TokenIds : /\ leaseInfo[t].endDate > leaseInfo[t].startDate
                      /\ leaseInfo[t].domainName # ""
                      /\ leaseInfo[t].lessee # ZeroAddress

BadMintOf ==
  \E sender \in Accounts, lessor \in Lessors, lessee \in Addresses,
     n \in ChainNames, d1 \in Dates, d2 \in Dates :
     /\ (n = "" \/ lessee = ZeroAddress \/ d2 <= d1)
     /\ mintLease(sender, lessor, lessee, n, d1, d2)

BadMintReverts ==
  (txn'.fn = "mintLease" /\ BadMintOf) => (txn'.err # "" /\ StorageUnchanged)

TokensWellFormed == []TokenFacts /\ [][BadMintReverts]_vars

BadMintRefused ==
  /\ txn.fn = "mintLease"
  /\ txn.err \in {"Domain name required", "Invalid lessee address",
                   "End date must be after start date"}
  /\ \E t \in TokenIds : ~leaseInfo[t].active

(***************************************************************************)
(* Requests to the auth routes, as seen on a pair of states.               *)
(***************************************************************************)
\* the token is correctly signed, not expired and names an existing User
ValidCredential(tok) ==
  /\ tok.sig = "good"
  /\ now < tok.exp
  /\ tok.userId \in 1..Len(users)

(***************************************************************************)
(* C17: a request reaches a handler behind authenticate only if its token  *)
(* is correctly signed, not expired and names an existing User; any other  *)
(* request is answered 401 and changes no state.                           *)
(***************************************************************************)
ProtectedNeedsValidToken ==
  [][\A tok \in AllTokens :
        (alast'.kind = "protected" /\ ~ValidCredential(tok) /\ Protected(tok))
        => (alast'.resp = 401 /\ UNCHANGED <<users, held, now, areq>>)]_vars

ExpiredTokenRejected ==
  /\ alast = [kind |-> "protected", resp |-> 401, error |-> "Token expired"]
  /\ \E tok \in held : now >= tok.exp /\ tok.userId \in 1..Len(users)

(***************************************************************************)
(* C18: GET /api/auth/me answers a request that carries a valid token of   *)
(* an existing user with that user's profile (200, never 404) and a        *)
(* request without a valid token with 401.                                 *)
(***************************************************************************)
MeReturnsProfile ==
  [][\A tok \in AllTokens :
        (alast'.kind = "me" /\ Me(tok))
        => IF ValidCredential(tok) THEN alast'.resp = 200 ELSE alast'.resp = 401]_vars

(***************************************************************************)
(* C19: a token opens the protected routes for 7 days from its issue, and  *)
(* POST /refresh answers every correctly signed token that names an        *)
(* existing user, expired or not, with a fresh 7-day token; it answers 401 *)
(* without a token or with a bad signature and 404 when the user does not  *)
(* exist.                                                                  *)
(***************************************************************************)
RefreshAnswers(tok) ==
  IF tok = NoToken \/ tok.sig # "good"
  THEN alast'.resp = 401 /\ held' = held
  ELSE IF tok.userId \notin 1..Len(users)
  THEN alast'.resp = 404 /\ held' = held
  ELSE /\ alast'.resp = 200
       /\ [userId |-> tok.userId, exp |-> now + TokenTTL, sig |-> "good"] \in held'

SevenDaysThenRefresh ==
  [][\A tok \in AllTokens :
        /\ (alast'.kind = "refresh" /\ Refresh(tok)) => RefreshAnswers(tok)
        /\ (/\ alast'.kind = "protected"
            /\ tok.sig = "good"
            /\ tok.userId \in 1..Len(users)
            /\ Protected(tok))
           => (alast'.resp = 200 <=> now < tok.exp)]_vars

\* the client holds a token that has expired and the token a refresh has
\* just issued for the same user in exchange
ExpiredTokenRefreshed ==
  /\ alast = [kind |-> "refresh", resp |-> 200, error |-> ""]
  /\ \E old \in held, new \in held :
        /\ now >= old.exp
        /\ new.userId = old.userId
        /\ new.exp = now + TokenTTL
        /\ held = {old, new}

(***************************************************************************)
(* C20: no two Users share an email, also when two register requests with  *)
(* the same email run concurrently; a register request for an email that   *)
(* exists is answered 409 and creates no user.                             *)
(***************************************************************************)
NoSharedEmail ==
  \A u1, u2 \in 1..Len(users) : users[u1].email = users[u2].email => u1 = u2

RegisterBy(e) == \E s \in Slots : RegisterFind(s, e)

ExistingEmailRefused ==
  \A e \in Emails :
     (/\ alast'.kind = "register"
      /\ \E u \in 1..Len(users) : users[u].email = e
      /\ RegisterBy(e))
     => (alast'.resp = 409 /\ users' = users /\ held' = held)

UniqueEmail == []NoSharedEmail /\ [][ExistingEmailRefused]_vars

\* a register that found no user is about to insert an email that another
\* register has inserted meanwhile
RegisterRaceOnEmail ==
  \E s \in Slots : /\ areq[s].pc = "register_create"
                   /\ \E u \in 1..Len(users) : users[u].email = areq[s].email

(***************************************************************************)
(* Calls of terminateLease, as seen on a pair of states.                   *)
(***************************************************************************)
\* sender calls terminateLease(t) and the transaction goes through
TerminateDone(sender, t) ==
  /\ txn' = [fn |-> "terminateLease", err |-> ""]
  /\ terminateLease(sender, t)

(***************************************************************************)
(* C23: terminateLease(tokenId) goes through only when the caller is the   *)
(* lease's lessor or the contract owner and the lease is active; for any   *)
(* other caller, a token that does not exist or a lease that is inactive   *)
(* it reverts and the storage is unchanged, so a second terminateLease on  *)
(* the same token fails.                                                   *)
(***************************************************************************)
TerminateNeedsLessorAndActive ==
  [][\A sender \in Accounts, t \in AllTokenIds :
       /\ TerminateDone(sender, t)
            => /\ t \in TokenIds
               /\ sender = leaseInfo[t].lessor \/ sender = ContractOwner
               /\ leaseInfo[t].active
               /\ ~leaseInfo'[t].active
       /\ (/\ txn'.fn = "terminateLease"
           /\ \/ t \notin TokenIds
              \/ ~(sender = leaseInfo[t].lessor \/ sender = ContractOwner)
              \/ ~leaseInfo[t].active
           /\ terminateLease(sender, t))
            => (txn'.err # "" /\ StorageUnchanged)]_vars

\* a terminateLease on a terminated lease was refused
SecondTerminateRefused ==
  /\ txn = [fn |-> "terminateLease", err |-> "Lease already inactive"]
  /\ \E t \in TokenIds : ~leaseInfo[t].active

(***************************************************************************)
(* C26: for every token, the lessee recorded in leases[tokenId] is the     *)
(* ERC721 owner of the token, after any mints, transfers and terminates.   *)
(***************************************************************************)
LesseeIsOwner ==
  /\ Len(owners) = Len(leaseInfo)
  /\ \A t \in TokenIds : leaseInfo[t].lessee = owners[t]

\* a token was transferred away from the lessee it was minted to
TokenTransferred ==
  /\ txn = [fn |-> "transferFrom", err |-> ""]
  /\ \E t \in TokenIds : owners[t] = "bob" /\ leaseInfo[t].lessee = "bob"

(***************************************************************************)
(* C27: the active flag of a lease is true when the token is minted, and   *)
(* once it is false no call of the contract (mint, transfer, terminate,    *)
(* fee or treasury update) sets it back to true.                           *)
(***************************************************************************)
ActiveIsMonotonic ==
  [][/\ \A t \in TokenIds : ~leaseInfo[t].active
          => (t \in 1..Len(leaseInfo') /\ ~leaseInfo'[t].active)
     /\ \A t \in 1..Len(leaseInfo') : t \notin TokenIds => leaseInfo'[t].active]_vars

\* a terminated lease's token was transferred, and the lease is still inactive
TerminatedThenTransferred ==
  /\ txn = [fn |-> "transferFrom", err |-> ""]
  /\ \E t \in TokenIds : ~leaseInfo[t].active /\ leaseInfo[t].lessee = ContractOwner

(***************************************************************************)
(* C28: in every reachable state the lessorId of a Listing is the ownerId  *)
(* of the Domain it references: publish reuses a Domain of the caller or   *)
(* creates one for the caller, and nothing writes ownerId or lessorId      *)
(* afterwards.                                                             *)
(***************************************************************************)
LessorOwnsDomain ==
  \A id \in 1..Len(listings) :
     /\ listings[id].domainId \in 1..Len(domains)
     /\ listings[id].lessorId = domains[listings[id].domainId].ownerId

\* the owner published a second listing for a domain that was there already
PublishedOnOwnDomain ==
  /\ last = [kind |-> "post", resp |-> 201]
  /\ Len(domains) = 1
  /\ Len(listings) = 2
  /\ listings[2].lessorId = domains[1].ownerId

(***************************************************************************)
(* C29: a Domain has at most one Listing in status 'active' or 'leased':   *)
(* a publish for a domain that has such a Listing does not add a second    *)
(* one.                                                                    *)
(***************************************************************************)
OneOpenListingPerDomain ==
  \A i, j \in 1..Len(listings) :
     (/\ listings[i].domainId = listings[j].domainId
      /\ listings[i].status \in {"active", "leased"}
      /\ listings[j].status \in {"active", "leased"}) => i = j

(***************************************************************************)
(* C21: a wallet maps to at most one User: the first valid wallet-login    *)
(* for a wallet creates one User and every later one, in any letter case   *)
(* of the address, logs into that User and creates none; logins for two    *)
(* distinct wallets give two distinct Users.                               *)
(***************************************************************************)
OneUserPerWallet ==
  \A u1, u2 \in 1..Len(users) :
     LowerAddress(users[u1].walletAddress) = LowerAddress(users[u2].walletAddress)
       => u1 = u2

(***************************************************************************)
(* Requests behind requirePro and to /recommendations, as seen on a pair   *)
(* of states.                                                              *)
(***************************************************************************)
\* the subscription of user u is current: isPro, and no date or one not past
CurrentPro(u) ==
  /\ users[u].isPro
  /\ users[u].proExpiresAt = NoValue \/ users[u].proExpiresAt[1] >= now

\* isPro is set and proExpiresAt is in the past
LapsedPro(u) ==
  /\ users[u].isPro
  /\ users[u].proExpiresAt # NoValue
  /\ users[u].proExpiresAt[1] < now

(***************************************************************************)
(* C24: requirePro lets a request through only when the user has isPro and *)
(* proExpiresAt is null or not in the past; when isPro is set and          *)
(* proExpiresAt is in the past it sets isPro to false and proExpiresAt to  *)
(* null, answers 403 and does not call the handler; without an             *)
(* authenticated user it answers 401.                                      *)
(***************************************************************************)
RequireProContract ==
  [][\A tok \in AllTokens, required \in BOOLEAN :
       (alast'.kind = "pro" /\ RequirePro(tok, required))
       => /\ alast'.resp = 200 => (ValidCredential(tok) /\ CurrentPro(tok.userId))
          /\ (ValidCredential(tok) /\ LapsedPro(tok.userId))
               => /\ alast'.resp = 403
                  /\ ~users'[tok.userId].isPro
                  /\ users'[tok.userId].proExpiresAt = NoValue
          /\ ~ValidCredential(tok) => alast'.resp = 401]_vars

\* a lapsed subscription was switched off by requirePro
LapsedProSwitchedOff ==
  /\ alast = [kind |-> "pro", resp |-> 403, error |-> "Pro subscription expired"]
  /\ ~users[1].isPro
  /\ users[1].proExpiresAt = NoValue

ActiveIds == {id \in 1..Len(listings) : listings[id].status = "active"}

OnlyActiveListed ==
  found.kind = "listings"
    => /\ \A i \in 1..Len(found.ids) : found.ids[i] \in ActiveIds
       /\ found.total <= Cardinality(ActiveIds)
       /\ Len(found.ids) <= found.total

\* a search over a marketplace with a Listing that is not active returned
\* the active one
ActiveListedOthersLeftOut ==
  /\ found.kind = "listings"
  /\ found.total = 1
  /\ Len(found.ids) = 1
  /\ Len(listings) = 2
  /\ Cardinality(ActiveIds) = 1

(***************************************************************************)
(* C25: InteractionHistory is append-only: the listing search, the detail  *)
(* view and the recommendations only add entries; no entry is updated or   *)
(* deleted.                                                                *)
(***************************************************************************)
HistoryAppendOnly ==
  [][/\ Len(history') >= Len(history)
     /\ SubSeq(history', 1, Len(history)) = history]_vars

\* a search and a detail view of the same user are both on record
SearchAndViewTracked ==
  /\ Len(history) >= 2
  /\ \E i, j \in 1..Len(history) :
        /\ i < j
        /\ history[i].source = "marketplace"
        /\ history[j].source = "direct_link"

====
